---- MODULE Spec2Model ----
(***************************************************************************)
(* Moorex: the effect reconciliation engine (createMoorex), its signal     *)
(* queue and the effect lifecycle guard, modelled on the JavaScript event  *)
(* loop: every action is one synchronous section (a caller's call or one   *)
(* microtask) and runs to completion.                                      *)
(*                                                                         *)
(* The Definition driven through the engine follows the repository's tests *)
(* (state {active}, signals noop / toggle), with one "active" flag per     *)
(* effect key; the payload stored under a key is derived from the whole    *)
(* state, so it can change while the key stays.  What runEffect, start,    *)
(* cancel and the start promise do is chosen nondeterministically.         *)
(***************************************************************************)
EXTENDS Integers, Sequences, FiniteSets, TLC

\* ---------------------------------------------------------------- bounds
MaxEntries == 2      \* RunningEffect entries created in one behaviour
MaxQueue == 2        \* signals waiting in the queue
MaxSignals == 2      \* signals scheduled in one behaviour
MaxSubs == 3         \* on() calls made on the event emitter in one behaviour
MaxCalls == 2        \* calls of one unsubscribe function

\* ------------------------------------------------- the Definition's types
\* Effect keys, in the order the test Definition writes them into the record
\* effectsAt returns.  Keys are arbitrary strings; "toString" is one that
\* is also the name of a property every object literal inherits.
KeyOrder == <<"alpha", "beta", "toString">>

Keys == {KeyOrder[i] : i \in 1..Len(KeyOrder)}

\* Names found on Object.prototype, the prototype of the object literal
\* effectsAt returns.
ObjectPrototypeKeys == {"toString"}

None == 0

States == [active : SUBSET Keys]

NoKey == "-"

Signals == {[op |-> "noop", key |-> NoKey]} \cup {[op |-> "toggle", key |-> k] : k \in Keys}

\* The signal an effect feeds back through its dispatch: its own key is done.
Done(k) == [op |-> "toggle", key |-> k]

\* What one runEffect call does: throw, or return an initializer whose start
\* throws, returns a pending / already resolved / already rejected promise,
\* or calls its dispatch synchronously and returns a pending promise.
StartKinds == {"runThrows", "startThrows", "pending", "resolved", "rejected", "dispatch"}

\* What one cancel() call does: return, throw, or call the effect's captured
\* dispatch synchronously and return.
CancelKinds == {"ok", "throws", "dispatch"}

NoError == "none"
ErrRunEffect == "runEffect-error"
ErrStart == "start-error"
ErrCancel == "cancel-error"
ErrTransition == "transition-error"
ErrEffectsAt == "effectsAt-error"
ErrReject == "rejection-reason"

VARIABLES
  state,      \* createMoorex: let state
  running,    \* createMoorex: running map, key -> entry (None when absent)
  entries,    \* every RunningEffect object ever created, by identity
  queue,      \* createSignalQueue: queue
  draining,   \* createSignalQueue: draining
  micro,      \* the event loop's microtask queue
  trace,      \* calls and emitted events of the last synchronous section
  dead,       \* history: entries that were deleted from the running map
  escaped,    \* an exception left the last synchronous section
  instance,   \* createMoorex returned an instance (dispatch / on / getState)
  sent,       \* history: how many signals schedule has been handed
  delivered,  \* history: the signals handed to processBatch, by schedule number
  handlers,   \* createEventEmitter: the handlers Set, in insertion order
  subs,       \* every unsubscribe function on() returned: its handler, its calls
  lastSnapshot, \* history: the handlers Set when the last emit was called
  lastCalls   \* history: the handlers the last emit invoked, in order

evars == <<handlers, subs, lastSnapshot, lastCalls>>

vars == <<state, running, entries, queue, draining, micro, trace, dead, escaped, instance, sent,
          delivered, handlers, subs, lastSnapshot, lastCalls>>

\* ------------------------------------------------------- the Definition
transition(signal, s) ==
  CASE signal.op = "toggle" ->
         [s EXCEPT !.active = IF signal.key \in s.active
                               THEN s.active \ {signal.key}
                               ELSE s.active \cup {signal.key}]
    [] OTHER -> s

\* The record effectsAt returns: its own keys, and the payload under a key.
effectsAt(s) == [k \in s.active |-> Cardinality(s.active)]


\* Object.entries(record): the record's own keys, in insertion order.
ObjectEntries(rec) == SelectSeq(KeyOrder, LAMBDA k : k \in DOMAIN rec)

\* JavaScript's `key in record`: an own key or a key of the prototype chain.
HasProperty(k, rec) == k \in DOMAIN rec \/ k \in ObjectPrototypeKeys

\* ------------------------------------------------- synchronous sections
\* A synchronous section threads a context record through the calls it makes:
\* ctx.state, ctx.running, ctx.entries, ctx.queue, ctx.draining, ctx.micro,
\* ctx.trace, ctx.dead, ctx.escaped, ctx.sent, ctx.delivered mirror the
\* variables of the same names.

NoSig == [sig |-> [op |-> "noop", key |-> NoKey], src |-> None, fresh |-> TRUE, seq |-> 0]

NoEffect == -1

\* One line of the trace: a call made ("call:...") or an event emitted, with
\* what an observer sees at that moment: what getState() returns (gs), whether
\* the key is in the running map (has), whether the entry is the map's
\* current entry for its key (cur) and whether it was when its promise
\* settled (was).
Item(ctx, type, key, ent, eff, sig, err, arg) ==
  [type |-> type, key |-> key, ent |-> ent, eff |-> eff, sig |-> sig,
   err |-> err, arg |-> arg, gs |-> ctx.state,
   has |-> (key \in Keys /\ ctx.running[key] # None),
   cur |-> (key \in Keys /\ ent # None /\ ctx.running[key] = ent),
   was |-> (ent # None /\ ent <= Len(ctx.entries) /\ ctx.entries[ent].was)]

record(ctx, type, key, ent, eff, sig, err, arg) ==
  [ctx EXCEPT !.trace = Append(@, Item(ctx, type, key, ent, eff, sig, err, arg))]

\* emit: every subscribed handler is handed the event.
emit(ctx, type, key, ent, eff, sig, err) ==
  [ctx EXCEPT !.trace = Append(@, Item(ctx, type, key, ent, eff, sig, err, ctx.state))]

\* A drain that queues its microtask without looking at the draining flag.
drain_NoGuard(ctx) ==
  [ctx EXCEPT !.draining = TRUE,
              !.micro = Append(@, [t |-> "drain", ent |-> None])]

drain(ctx) ==
  IF ctx.draining
  THEN ctx
  ELSE [ctx EXCEPT !.draining = TRUE,
                   !.micro = Append(@, [t |-> "drain", ent |-> None])]

\* A schedule that applies the signal to the state at once instead of
\* queueing it.
schedule_Immediate(ctx, item) ==
  [ctx EXCEPT !.state = transition(item.sig, @), !.sent = @ + 1]

\* A schedule that pushes the signal and does not call drain().
schedule_PushOnly(ctx, item) ==
  [ctx EXCEPT !.queue = Append(@, [sig |-> item.sig, src |-> item.src,
                                   fresh |-> item.fresh, seq |-> ctx.sent + 1]),
              !.sent = @ + 1]

\* queue.push(signal); drain().  The queued signal is numbered by its schedule
\* call.
schedule(ctx, item) ==
  drain([ctx EXCEPT !.queue = Append(@, [sig |-> item.sig, src |-> item.src,
                                         fresh |-> item.fresh, seq |-> ctx.sent + 1]),
                    !.sent = @ + 1])

\* A guard that decides when the wrapper is created, where the entry has just
\* been put into the running map.
guardCurrentEffect_AtCreation(run, ents, e) == TRUE

\* A guard that asks whether the key is running, not whether this entry is.
guardCurrentEffect_ByKey(run, ents, e) == run[ents[e].key] # None

\* A guard that compares the effect payloads of the running entry and of this
\* entry, not the entries themselves.
guardCurrentEffect_ByPayload(run, ents, e) ==
  /\ run[ents[e].key] # None
  /\ ents[run[ents[e].key]].effect = ents[e].effect

\* running.get(entry.key) === entry
guardCurrentEffect(run, ents, e) == run[ents[e].key] = e

\* The function startEffect hands to start: guardCurrentEffect(...)(schedule).
scopedDispatch(ctx, e, signal) ==
  LET c1 == record(ctx, "call:dispatch", ctx.entries[e].key, e, ctx.entries[e].effect,
                   NoSig, NoError, ctx.state)
  IN IF guardCurrentEffect(c1.running, c1.entries, e)
     THEN schedule(c1, [sig |-> signal, src |-> e, fresh |-> e \notin c1.dead])
     ELSE c1

\* try { fn() } catch (error) { emit effect-failed }, for an fn that threw
\* err (NoError: it returned).
withEffectErrorHandling(ctx, key, ent, eff, err) ==
  IF err # NoError
  THEN emit(ctx, "effect-failed", key, ent, eff, NoSig, err)
  ELSE ctx

\* entry.complete.then(guarded).catch(guarded): a promise that is already
\* settled queues its reaction job at once; a rejection first passes through
\* the .then link, which has no rejection handler.
attachCompletionHandlers(ctx, e) ==
  CASE ctx.entries[e].complete = "resolved" ->
         [ctx EXCEPT !.micro = Append(@, [t |-> "then", ent |-> e])]
    [] ctx.entries[e].complete = "rejected" ->
         [ctx EXCEPT !.micro = Append(@, [t |-> "thenReject", ent |-> e])]
    [] OTHER -> ctx

startEffect(ctx, key, effect, st, kind) ==
  LET c0 == record(ctx, "call:runEffect", key, None, effect, NoSig,
                   IF kind = "runThrows" THEN ErrRunEffect ELSE NoError, st)
  IN IF kind = "runThrows"
     THEN withEffectErrorHandling(c0, key, None, effect, ErrRunEffect)
     ELSE LET e == Len(c0.entries) + 1
              c1 == [c0 EXCEPT !.entries = Append(@, [key |-> key, effect |-> effect,
                                                      complete |-> "temp", was |-> FALSE]),
                               !.running[key] = e]
              c2 == record(c1, "call:start", key, e, effect, NoSig,
                           IF kind = "startThrows" THEN ErrStart ELSE NoError, c1.state)
          IN IF kind = "startThrows"
             THEN [c2 EXCEPT !.escaped = TRUE]
             ELSE LET c3 == IF kind = "dispatch" THEN scopedDispatch(c2, e, Done(key)) ELSE c2
                      c4 == [c3 EXCEPT !.entries[e].complete =
                                          IF kind \in {"pending", "dispatch"} THEN "pending" ELSE kind,
                                       !.entries[e].was = kind \in {"resolved", "rejected"}]
                      c5 == emit(c4, "effect-started", key, e, effect, NoSig, NoError)
                  IN attachCompletionHandlers(c5, e)

\* A cancel loop that calls cancel() before running.delete(key).
RECURSIVE cancelLoop_DeleteAfterCancel(_, _, _, _, _)
cancelLoop_DeleteAfterCancel(ctx, snapshot, currentEffects, co, e) ==
  IF e > Len(ctx.entries)
  THEN ctx
  ELSE LET key == ctx.entries[e].key
           eff == ctx.entries[e].effect
       IN IF snapshot[key] = e /\ ~HasProperty(key, currentEffects)
          THEN LET err == IF co[key] = "throws" THEN ErrCancel ELSE NoError
                   c1 == record(ctx, "call:cancel", key, e, eff, NoSig, err, ctx.state)
                   c2 == IF co[key] = "dispatch" THEN scopedDispatch(c1, e, Done(key)) ELSE c1
                   c3 == [c2 EXCEPT !.running[key] = None, !.dead = @ \cup {e}]
                   c4 == withEffectErrorHandling(c3, key, e, eff, err)
                   c5 == emit(c4, "effect-canceled", key, e, eff, NoSig, NoError)
               IN cancelLoop_DeleteAfterCancel(c5, snapshot, currentEffects, co, e + 1)
          ELSE cancelLoop_DeleteAfterCancel(ctx, snapshot, currentEffects, co, e + 1)

\* A cancel loop that forgets running.delete(key).
RECURSIVE cancelLoop_NoDelete(_, _, _, _, _)
cancelLoop_NoDelete(ctx, snapshot, currentEffects, co, e) ==
  IF e > Len(ctx.entries)
  THEN ctx
  ELSE LET key == ctx.entries[e].key
           eff == ctx.entries[e].effect
       IN IF snapshot[key] = e /\ ~HasProperty(key, currentEffects)
          THEN LET err == IF co[key] = "throws" THEN ErrCancel ELSE NoError
                   c2 == record(ctx, "call:cancel", key, e, eff, NoSig, err, ctx.state)
                   c3 == IF co[key] = "dispatch" THEN scopedDispatch(c2, e, Done(key)) ELSE c2
                   c4 == withEffectErrorHandling(c3, key, e, eff, err)
                   c5 == emit(c4, "effect-canceled", key, e, eff, NoSig, NoError)
               IN cancelLoop_NoDelete(c5, snapshot, currentEffects, co, e + 1)
          ELSE cancelLoop_NoDelete(ctx, snapshot, currentEffects, co, e + 1)

\* for (const [key, entry] of [...running]): the snapshot is walked in the
\* map's insertion order, which is the order the entries were created in.
RECURSIVE cancelLoop(_, _, _, _, _)
cancelLoop(ctx, snapshot, currentEffects, co, e) ==
  IF e > Len(ctx.entries)
  THEN ctx
  ELSE LET key == ctx.entries[e].key
           eff == ctx.entries[e].effect
       IN IF snapshot[key] = e /\ ~HasProperty(key, currentEffects)
          THEN LET err == IF co[key] = "throws" THEN ErrCancel ELSE NoError
                   c1 == [ctx EXCEPT !.running[key] = None, !.dead = @ \cup {e}]
                   c2 == record(c1, "call:cancel", key, e, eff, NoSig, err, c1.state)
                   c3 == IF co[key] = "dispatch" THEN scopedDispatch(c2, e, Done(key)) ELSE c2
                   c4 == withEffectErrorHandling(c3, key, e, eff, err)
                   c5 == emit(c4, "effect-canceled", key, e, eff, NoSig, NoError)
               IN cancelLoop(c5, snapshot, currentEffects, co, e + 1)
          ELSE cancelLoop(ctx, snapshot, currentEffects, co, e + 1)

cancelObsoleteEffects(ctx, currentEffects, co) ==
  cancelLoop(ctx, ctx.running, currentEffects, co, 1)

\* A loop that forgets `if (running.has(key)) continue`.
RECURSIVE startLoop_NoHasCheck(_, _, _, _)
startLoop_NoHasCheck(ctx, currentEffects, so, i) ==
  IF i > Len(ObjectEntries(currentEffects)) \/ ctx.escaped
  THEN ctx
  ELSE LET key == ObjectEntries(currentEffects)[i]
       IN startLoop_NoHasCheck(
            startEffect(ctx, key, currentEffects[key], ctx.state,
                        IF key \in DOMAIN so THEN so[key] ELSE "pending"),
            currentEffects, so, i + 1)

\* A loop that starts a running key again when its payload has changed.
RECURSIVE startLoop_RestartOnChange(_, _, _, _)
startLoop_RestartOnChange(ctx, currentEffects, so, i) ==
  IF i > Len(ObjectEntries(currentEffects)) \/ ctx.escaped
  THEN ctx
  ELSE LET key == ObjectEntries(currentEffects)[i]
       IN IF /\ ctx.running[key] # None
             /\ ctx.entries[ctx.running[key]].effect = currentEffects[key]
          THEN startLoop_RestartOnChange(ctx, currentEffects, so, i + 1)
          ELSE startLoop_RestartOnChange(
                 startEffect(ctx, key, currentEffects[key], ctx.state,
                             IF key \in DOMAIN so THEN so[key] ELSE "pending"),
                 currentEffects, so, i + 1)

\* for (const [key, effect] of Object.entries(currentEffects)); an exception
\* thrown by start leaves the loop.
RECURSIVE startLoop(_, _, _, _)
startLoop(ctx, currentEffects, so, i) ==
  IF i > Len(ObjectEntries(currentEffects)) \/ ctx.escaped
  THEN ctx
  ELSE LET key == ObjectEntries(currentEffects)[i]
       IN IF ctx.running[key] # None
          THEN startLoop(ctx, currentEffects, so, i + 1)
          ELSE startLoop(startEffect(ctx, key, currentEffects[key], ctx.state, so[key]),
                         currentEffects, so, i + 1)

\* A pass that leaves the desired effects to be started by a later pass.
startNewEffects_Lazy(ctx, currentEffects, so) == ctx

startNewEffects(ctx, currentEffects, so) == startLoop(ctx, currentEffects, so, 1)

\* A reconciliation whose runEffect calls are handed the state the section
\* began with, not the state effectsAt was called with.
reconcileEffects_CommittedState(ctx, so, co) ==
  LET c0 == record(ctx, "call:effectsAt", NoKey, None, NoEffect, NoSig, NoError, ctx.state)
      currentEffects == effectsAt(ctx.state)
      c1 == cancelObsoleteEffects(c0, currentEffects, co)
      before == IF ctx.trace # <<>> THEN ctx.trace[1].gs ELSE ctx.state
      c2 == startNewEffects([c1 EXCEPT !.state = before], currentEffects, so)
  IN [c2 EXCEPT !.state = ctx.state]

\* A reconciliation that starts the new effects before it cancels the
\* obsolete ones.
reconcileEffects_StartFirst(ctx, so, co) ==
  LET c0 == record(ctx, "call:effectsAt", NoKey, None, NoEffect, NoSig, NoError, ctx.state)
      currentEffects == effectsAt(ctx.state)
  IN cancelObsoleteEffects(startNewEffects(c0, currentEffects, so), currentEffects, co)

reconcileEffects(ctx, so, co) ==
  LET c0 == record(ctx, "call:effectsAt", NoKey, None, NoEffect, NoSig, NoError, ctx.state)
      currentEffects == effectsAt(ctx.state)
  IN startNewEffects(cancelObsoleteEffects(c0, currentEffects, co), currentEffects, so)

\* A fold that assigns the engine's state variable after every signal.
RECURSIVE reduce_EagerAssign(_, _, _, _)
reduce_EagerAssign(ctx, signals, i, currentState) ==
  IF i > Len(signals)
  THEN [ctx EXCEPT !.state = currentState]
  ELSE LET c0 == [ctx EXCEPT !.state = currentState]
           c1 == emit(c0, "signal-received", NoKey, None, NoEffect, signals[i], NoError)
           c2 == record(c1, "call:transition", NoKey, None, NoEffect, signals[i],
                        NoError, currentState)
       IN reduce_EagerAssign(c2, signals, i + 1, transition(signals[i].sig, currentState))

\* signals.reduce(...): emit signal-received, then transition, per signal;
\* the engine's state variable is assigned when reduce returns.
RECURSIVE reduce(_, _, _, _)
reduce(ctx, signals, i, currentState) ==
  IF i > Len(signals)
  THEN [ctx EXCEPT !.state = currentState]
  ELSE LET c1 == emit(ctx, "signal-received", NoKey, None, NoEffect, signals[i], NoError)
           c2 == record(c1, "call:transition", NoKey, None, NoEffect, signals[i],
                        NoError, currentState)
       IN reduce(c2, signals, i + 1, transition(signals[i].sig, currentState))

\* A batch handler that reconciles against the state the batch started from.
processBatch_StaleEffects(ctx, signals, so, co) ==
  LET c0 == [ctx EXCEPT !.delivered = @ \o [i \in 1..Len(signals) |-> signals[i].seq]]
      c1 == reduce(c0, signals, 1, c0.state)
      so2 == [k \in Keys |-> IF k \in DOMAIN so THEN so[k] ELSE "pending"]
      co2 == [k \in Keys |-> IF k \in DOMAIN co THEN co[k] ELSE "ok"]
      c2 == [reconcileEffects([c1 EXCEPT !.state = c0.state], so2, co2)
               EXCEPT !.state = c1.state]
  IN IF c2.escaped
     THEN c2
     ELSE emit(c2, "state-updated", NoKey, None, NoEffect, NoSig, NoError)

\* The batch handler createMoorex gives to createSignalQueue.
processBatch(ctx, signals, so, co) ==
  LET c0 == [ctx EXCEPT !.delivered = @ \o [i \in 1..Len(signals) |-> signals[i].seq]]
      c1 == reduce(c0, signals, 1, c0.state)
      c2 == reconcileEffects(c1, so, co)
  IN IF c2.escaped
     THEN c2
     ELSE emit(c2, "state-updated", NoKey, None, NoEffect, NoSig, NoError)

\* The two guarded continuations attachCompletionHandlers creates; the
\* reaction job that calls one is recorded, and the promise has then nothing
\* left to do ("done").
\* A fulfilment continuation that was not wrapped in the guard.
onFulfilled_Unguarded(ctx, e) ==
  LET c1 == record([ctx EXCEPT !.entries[e].complete = "done"], "call:onFulfilled",
                   ctx.entries[e].key, e, ctx.entries[e].effect, NoSig, NoError, ctx.state)
  IN emit([c1 EXCEPT !.running[c1.entries[e].key] = None, !.dead = @ \cup {e}],
          "effect-completed", c1.entries[e].key, e, c1.entries[e].effect, NoSig, NoError)

onFulfilled(ctx, e) ==
  LET c1 == record([ctx EXCEPT !.entries[e].complete = "done"], "call:onFulfilled",
                   ctx.entries[e].key, e, ctx.entries[e].effect, NoSig, NoError, ctx.state)
  IN IF guardCurrentEffect(c1.running, c1.entries, e)
     THEN emit([c1 EXCEPT !.running[c1.entries[e].key] = None, !.dead = @ \cup {e}],
               "effect-completed", c1.entries[e].key, e, c1.entries[e].effect, NoSig, NoError)
     ELSE c1

\* A rejection continuation that forgets running.delete(entry.key).
onRejected_NoDelete(ctx, e, error) ==
  LET c1 == record([ctx EXCEPT !.entries[e].complete = "done"], "call:onRejected",
                   ctx.entries[e].key, e, ctx.entries[e].effect, NoSig, error, ctx.state)
  IN IF guardCurrentEffect(c1.running, c1.entries, e)
     THEN emit(c1, "effect-failed", c1.entries[e].key, e, c1.entries[e].effect, NoSig, error)
     ELSE c1

onRejected(ctx, e, error) ==
  LET c1 == record([ctx EXCEPT !.entries[e].complete = "done"], "call:onRejected",
                   ctx.entries[e].key, e, ctx.entries[e].effect, NoSig, error, ctx.state)
  IN IF guardCurrentEffect(c1.running, c1.entries, e)
     THEN emit([c1 EXCEPT !.running[c1.entries[e].key] = None, !.dead = @ \cup {e}],
               "effect-failed", c1.entries[e].key, e, c1.entries[e].effect, NoSig, error)
     ELSE c1

\* A drain callback that does not look at the queue again after the batch.
drainMicrotask_NoRedrain(ctx, so, co) ==
  IF Len(ctx.queue) = 0
  THEN [ctx EXCEPT !.draining = FALSE]
  ELSE LET batch == ctx.queue
           c1 == processBatch([ctx EXCEPT !.queue = <<>>], batch, so, co)
       IN IF c1.escaped
          THEN c1
          ELSE [c1 EXCEPT !.draining = FALSE]

\* A drain callback that reads the queue without emptying it.
drainMicrotask_NoSplice(ctx, so, co) ==
  IF Len(ctx.queue) = 0
  THEN [ctx EXCEPT !.draining = FALSE]
  ELSE LET batch == ctx.queue
           c1 == processBatch(ctx, batch, so, co)
       IN IF c1.escaped
          THEN c1
          ELSE LET c2 == [c1 EXCEPT !.draining = FALSE]
               IN IF Len(c2.queue) > 0 THEN drain(c2) ELSE c2

\* A drain callback that drains again whether or not the batch left signals.
drainMicrotask_AlwaysRedrain(ctx, so, co) ==
  IF Len(ctx.queue) = 0
  THEN [ctx EXCEPT !.draining = FALSE]
  ELSE LET batch == ctx.queue
           c1 == processBatch([ctx EXCEPT !.queue = <<>>], batch, so, co)
       IN IF c1.escaped
          THEN c1
          ELSE drain([c1 EXCEPT !.draining = FALSE])

\* The microtask drain() queues.
drainMicrotask(ctx, so, co) ==
  IF Len(ctx.queue) = 0
  THEN [ctx EXCEPT !.draining = FALSE]
  ELSE LET batch == ctx.queue
           c1 == processBatch([ctx EXCEPT !.queue = <<>>], batch, so, co)
       IN IF c1.escaped
          THEN c1
          ELSE LET c2 == [c1 EXCEPT !.draining = FALSE]
               IN IF Len(c2.queue) > 0 THEN drain(c2) ELSE c2

\* Where a Definition callback of the batch throws: transition, for the
\* at-th signal of a batch of n, or effectsAt.
Faults(n) ==
  {[in |-> "transition", at |-> i] : i \in 1..n} \cup {[in |-> "effectsAt", at |-> 0]}

\* signals.reduce(...) whose transition(signal)(currentState) throws for the
\* at-th signal: the exception leaves reduce before state is assigned.
RECURSIVE reduceThrows(_, _, _, _, _)
reduceThrows(ctx, signals, i, currentState, at) ==
  LET c1 == emit(ctx, "signal-received", NoKey, None, NoEffect, signals[i], NoError)
      c2 == record(c1, "call:transition", NoKey, None, NoEffect, signals[i],
                   IF i = at THEN ErrTransition ELSE NoError, currentState)
  IN IF i = at
     THEN [c2 EXCEPT !.escaped = TRUE]
     ELSE reduceThrows(c2, signals, i + 1, transition(signals[i].sig, currentState), at)

\* The batch handler, for a batch in which transition or effectsAt throws:
\* nothing in it catches the exception.
processBatchThrows(ctx, signals, fault) ==
  LET c0 == [ctx EXCEPT !.delivered = @ \o [i \in 1..Len(signals) |-> signals[i].seq]]
  IN IF fault.in = "transition"
     THEN reduceThrows(c0, signals, 1, c0.state, fault.at)
     ELSE LET c1 == reduce(c0, signals, 1, c0.state)
              c2 == record(c1, "call:effectsAt", NoKey, None, NoEffect, NoSig,
                           ErrEffectsAt, c1.state)
          IN [c2 EXCEPT !.escaped = TRUE]

\* The microtask drain() queues, for a batch in which processBatch throws:
\* the exception leaves the callback after the splice, before draining is
\* reset and before the queue is looked at again.
drainMicrotaskThrows(ctx, fault) ==
  processBatchThrows([ctx EXCEPT !.queue = <<>>], ctx.queue, fault)

\* ------------------------------------------------------ the event emitter
\* Handler functions an application subscribes.
HandlerIds == {"h1", "h2"}

NoHandler == "-"

\* What a handler does when it is invoked with an event: nothing, call an
\* unsubscribe function, or subscribe a handler.
Behaviours ==
  {[op |-> "none", t |-> 0, h |-> NoHandler]}
    \cup {[op |-> "unsub", t |-> t, h |-> NoHandler] : t \in 1..MaxSubs}
    \cup {[op |-> "on", t |-> 0, h |-> h] : h \in HandlerIds}

Range(seq) == {seq[i] : i \in 1..Len(seq)}

\* An emitter some handler was subscribed to before the engine was built.
createEventEmitter_Shared == <<"h1">>

\* createEventEmitter(): handlers = new Set(), inside createMoorex.
createEventEmitter == <<>>

\* Set.prototype.add / delete on a Set kept in insertion order.
SetAdd(set, h) == IF h \in Range(set) THEN set ELSE Append(set, h)

SetDelete(set, h) == SelectSeq(set, LAMBDA x : x # h)

\* on(handler): handlers.add(handler); return () => handlers.delete(handler).
\* ectx.handlers, ectx.subs, ectx.calls: the Set, the unsubscribe functions
\* handed out, and the handlers invoked so far by the running emit.
on(ectx, h) ==
  [ectx EXCEPT !.handlers = SetAdd(@, h), !.subs = Append(@, [h |-> h, calls |-> 0])]

\* The function on() returned, called: handlers.delete(handler).
unsubscribe(ectx, t) ==
  [ectx EXCEPT !.handlers = SetDelete(@, ectx.subs[t].h), !.subs[t].calls = @ + 1]

\* What the handler at position i does to the emitter when it is invoked.
invoke(ectx, b) ==
  CASE b.op = "unsub" /\ b.t <= Len(ectx.subs) -> unsubscribe(ectx, b.t)
    [] b.op = "on" -> on(ectx, b.h)
    [] OTHER -> ectx

\* for (const handler of handlers) handler(event): the loop walks the live
\* Set.  A handler deleted before its turn is not visited, a handler added
\* during the loop is visited at the end; deleting a handler at or before
\* position i moves the following ones up by one.
RECURSIVE emitLoop(_, _, _)
emitLoop(ectx, i, behave) ==
  IF i > Len(ectx.handlers)
  THEN ectx
  ELSE LET h == ectx.handlers[i]
           c1 == invoke([ectx EXCEPT !.calls = Append(@, h)], behave[h])
           gone == {j \in 1..i : ectx.handlers[j] \notin Range(c1.handlers)}
       IN emitLoop(c1, i + 1 - Cardinality(gone), behave)

\* ----------------------------------------------------------- the machine
\* The context a synchronous section starts from.
Ctx ==
  [state |-> state, running |-> running, entries |-> entries, queue |-> queue,
   draining |-> draining, micro |-> micro, trace |-> <<>>, dead |-> dead,
   escaped |-> FALSE, sent |-> sent, delivered |-> delivered]

Commit(c) ==
  /\ Len(c.entries) <= MaxEntries
  /\ Len(c.queue) <= MaxQueue
  /\ c.sent <= MaxSignals
  /\ sent' = c.sent
  /\ delivered' = c.delivered
  /\ state' = c.state
  /\ running' = c.running
  /\ entries' = c.entries
  /\ queue' = c.queue
  /\ draining' = c.draining
  /\ micro' = c.micro
  /\ trace' = c.trace
  /\ dead' = c.dead
  /\ escaped' = c.escaped
  /\ UNCHANGED evars

\* Keys a reconciliation pass against state s will start / cancel.
ToStart(run, s) == {k \in DOMAIN effectsAt(s) : run[k] = None}

ToCancel(run, s) == {k \in Keys : run[k] # None /\ ~HasProperty(k, effectsAt(s))}

RECURSIVE fold(_, _)
fold(signals, s) ==
  IF signals = <<>> THEN s ELSE fold(Tail(signals), transition(Head(signals).sig, s))

\* initiate(): the hydrated state the engine boots from.
InitStates == {s \in States : s.active \subseteq {"alpha"}}

\* Definition callbacks that neither throw nor reject.
QuietStartKinds == {"pending", "resolved", "dispatch"}

QuietCancelKinds == {"ok", "dispatch"}

\* createMoorex: empty map and queue, one reconciliation pass against the
\* initial state; the instance is returned unless that pass threw.
InitFrom(initStates, startKinds) ==
  \E s0 \in initStates :
    \E so \in [s0.active -> startKinds] :
      LET c == reconcileEffects(
                 [state |-> s0, running |-> [k \in Keys |-> None], entries |-> <<>>,
                  queue |-> <<>>, draining |-> FALSE, micro |-> <<>>, trace |-> <<>>,
                  dead |-> {}, escaped |-> FALSE, sent |-> 0, delivered |-> <<>>],
                 so, <<>>)
      IN /\ Len(c.entries) <= MaxEntries
         /\ Len(c.queue) <= MaxQueue
         /\ c.sent <= MaxSignals
         /\ sent = c.sent
         /\ delivered = c.delivered
         /\ state = c.state
         /\ running = c.running
         /\ entries = c.entries
         /\ queue = c.queue
         /\ draining = c.draining
         /\ micro = c.micro
         /\ trace = c.trace
         /\ dead = c.dead
         /\ escaped = c.escaped
         /\ instance = ~c.escaped
         /\ handlers = createEventEmitter
         /\ subs = <<>>
         /\ lastSnapshot = <<>>
         /\ lastCalls = <<>>

InitWith(startKinds) == InitFrom(InitStates, startKinds)

Init == InitWith(StartKinds)

\* createMoorex for any hydrated state the Definition may boot from.
InitBoot == InitFrom(States, StartKinds)

InitQuiet == InitWith(QuietStartKinds)

\* moorex.dispatch(signal), called by the embedding application.
Dispatch(signal) ==
  /\ instance
  /\ Commit(schedule(Ctx, [sig |-> signal, src |-> None, fresh |-> TRUE]))
  /\ UNCHANGED instance

\* An effect calls the dispatch function its start was given, at any later time.
EffectDispatch(e) ==
  /\ e \in 1..Len(entries)
  /\ Commit(scopedDispatch(Ctx, e, Done(entries[e].key)))
  /\ UNCHANGED instance

\* The promise start returned settles; its reaction job is queued.
Settle(e, outcome) ==
  /\ e \in 1..Len(entries)
  /\ entries[e].complete = "pending"
  /\ Commit(attachCompletionHandlers(
              [Ctx EXCEPT !.entries[e].complete = outcome,
                          !.entries[e].was = guardCurrentEffect(running, entries, e)], e))
  /\ UNCHANGED instance

DrainWith(startKinds, cancelKinds) ==
  /\ micro # <<>>
  /\ Head(micro).t = "drain"
  /\ LET s1 == fold(queue, state)
     IN \E so \in [ToStart(running, s1) -> startKinds] :
          \E co \in [ToCancel(running, s1) -> cancelKinds] :
            Commit(drainMicrotask([Ctx EXCEPT !.micro = Tail(@)], so, co))
  /\ UNCHANGED instance

DrainMicrotask == DrainWith(StartKinds, CancelKinds)

DrainQuiet == DrainWith(QuietStartKinds, QuietCancelKinds)

SettleQuiet(e) == Settle(e, "resolved")

ThenMicrotask ==
  /\ micro # <<>>
  /\ Head(micro).t = "then"
  /\ Commit(onFulfilled([Ctx EXCEPT !.micro = Tail(@)], Head(micro).ent))
  /\ UNCHANGED instance

\* The rejection passes through .then(...) to the promise .catch is attached to.
ThenRejectMicrotask ==
  /\ micro # <<>>
  /\ Head(micro).t = "thenReject"
  /\ Commit([Ctx EXCEPT !.micro = Append(Tail(@), [t |-> "catch", ent |-> Head(micro).ent])])
  /\ UNCHANGED instance

CatchMicrotask ==
  /\ micro # <<>>
  /\ Head(micro).t = "catch"
  /\ Commit(onRejected([Ctx EXCEPT !.micro = Tail(@)], Head(micro).ent, ErrReject))
  /\ UNCHANGED instance

Next ==
  \/ \E signal \in Signals : Dispatch(signal)
  \/ \E e \in 1..MaxEntries : EffectDispatch(e)
  \/ \E e \in 1..MaxEntries : \E outcome \in {"resolved", "rejected"} : Settle(e, outcome)
  \/ DrainMicrotask
  \/ ThenMicrotask
  \/ ThenRejectMicrotask
  \/ CatchMicrotask

Spec == Init /\ [][Next]_vars

\* The same machine booted from any hydrated state.
SpecBoot == InitBoot /\ [][Next]_vars

\* The same machine driven by a Definition whose start never throws
\* synchronously, so that every processBatch call returns; the event loop
\* runs every queued microtask.
ReturningStartKinds == StartKinds \ {"startThrows"}

InitReturning == InitWith(ReturningStartKinds)

DrainReturning == DrainWith(ReturningStartKinds, CancelKinds)

NextReturning ==
  \/ \E signal \in Signals : Dispatch(signal)
  \/ \E e \in 1..MaxEntries : EffectDispatch(e)
  \/ \E e \in 1..MaxEntries : \E outcome \in {"resolved", "rejected"} : Settle(e, outcome)
  \/ DrainReturning
  \/ ThenMicrotask
  \/ ThenRejectMicrotask
  \/ CatchMicrotask

\* A drain microtask whose batch makes transition or effectsAt throw.
DrainThrowing ==
  /\ micro # <<>>
  /\ Head(micro).t = "drain"
  /\ queue # <<>>
  /\ \E fault \in Faults(Len(queue)) :
       Commit(drainMicrotaskThrows([Ctx EXCEPT !.micro = Tail(@)], fault))
  /\ UNCHANGED instance

\* The machine driven by a Definition whose start never throws synchronously
\* and whose transition and effectsAt may throw.
NextFaulty ==
  \/ NextReturning
  \/ DrainThrowing

SpecFaulty == InitReturning /\ [][NextFaulty]_vars

\* The microtask at the head of the event loop's queue is of kind t.
HeadIs(t) == micro # <<>> /\ Head(micro).t = t

\* Weak fairness of each microtask action: the microtask at the head of the
\* queue is eventually run.  For the actions that run Definition callbacks
\* WF_vars(A) is written out as []<>~ENABLED <<A>>_vars \/ []<><<A>>_vars with
\* ENABLED <<A>>_vars replaced by the state predicate it is equal to in this
\* machine: the microtask is at the head of the queue.
SpecFair ==
  /\ InitReturning
  /\ [][NextReturning]_vars
  /\ ([]<>(~HeadIs("drain")) \/ []<><<DrainReturning>>_vars)
  /\ ([]<>(~HeadIs("then")) \/ []<><<ThenMicrotask>>_vars)
  /\ WF_vars(ThenRejectMicrotask)
  /\ ([]<>(~HeadIs("catch")) \/ []<><<CatchMicrotask>>_vars)

\* The same machine driven by a Definition whose callbacks never throw and
\* whose promises never reject.
NextQuiet ==
  \/ \E signal \in Signals : Dispatch(signal)
  \/ \E e \in 1..MaxEntries : EffectDispatch(e)
  \/ \E e \in 1..MaxEntries : SettleQuiet(e)
  \/ DrainQuiet
  \/ ThenMicrotask

SpecQuiet == InitQuiet /\ [][NextQuiet]_vars

\* The event emitter of an idle instance, driven by the application: on,
\* unsubscribe functions and emit, with handlers that may change the
\* subscriptions while they are invoked.
InitEmitter == InitFrom({[active |-> {}]}, {"pending"})

ECtx == [handlers |-> handlers, subs |-> subs, calls |-> <<>>]

ECommit(c) ==
  /\ Len(c.subs) <= MaxSubs
  /\ handlers' = c.handlers
  /\ subs' = c.subs
  /\ UNCHANGED <<state, running, entries, queue, draining, micro, trace, dead, escaped,
                 instance, sent, delivered>>

On(h) ==
  /\ ECommit(on(ECtx, h))
  /\ UNCHANGED <<lastSnapshot, lastCalls>>

Unsubscribe(t) ==
  /\ t \in 1..Len(subs)
  /\ subs[t].calls < MaxCalls
  /\ ECommit(unsubscribe(ECtx, t))
  /\ UNCHANGED <<lastSnapshot, lastCalls>>

Emit(behave) ==
  LET c == emitLoop(ECtx, 1, behave)
  IN /\ \A t \in 1..Len(c.subs) : c.subs[t].calls <= MaxCalls
     /\ ECommit(c)
     /\ lastSnapshot' = handlers
     /\ lastCalls' = c.calls

NextEmitter ==
  \/ \E h \in HandlerIds : On(h)
  \/ \E t \in 1..MaxSubs : Unsubscribe(t)
  \/ \E behave \in [HandlerIds -> Behaviours] : Emit(behave)

SpecEmitter == InitEmitter /\ [][NextEmitter]_vars

\* moorex.on(handler), called by the application on the instance
\* createMoorex returned; the application keeps no unsubscribe function.
Subscribe(h) ==
  /\ instance
  /\ handlers' = on(ECtx, h).handlers
  /\ trace' = <<>>
  /\ escaped' = FALSE
  /\ UNCHANGED <<state, running, entries, queue, draining, micro, dead, instance, sent,
                 delivered, subs, lastSnapshot, lastCalls>>

\* The machine with an application that subscribes handlers at any time.
NextObserved ==
  \/ Next
  \/ \E h \in HandlerIds : Subscribe(h)

SpecObserved == Init /\ [][NextObserved]_vars

TypeOK ==
  /\ state \in States
  /\ running \in [Keys -> 0..MaxEntries]
  /\ Len(entries) <= MaxEntries
  /\ Len(queue) <= MaxQueue
  /\ draining \in BOOLEAN

\* ------------------------------------------------------------ properties
\* Reading the trace of the last synchronous section.
Lines(t, types) == {i \in 1..Len(t) : t[i].type \in types}

LinesOf(t, types, e) == {i \in Lines(t, types) : t[i].ent = e}

LinesAbout(t, types, k) == {i \in Lines(t, types) : t[i].key = k}

EffectEvents == {"effect-started", "effect-completed", "effect-canceled", "effect-failed"}

EffectCalls == {"call:runEffect", "call:start", "call:cancel"}

\* The section was a batch handed over by the queue / a continuation of e's promise.
IsBatch(t) == t # <<>> /\ t[1].type = "signal-received"

IsSettlement(t) == t # <<>> /\ t[1].type \in {"call:onFulfilled", "call:onRejected"}

\* C1: a scoped dispatch called after its entry stopped being the current
\* entry for its key enqueues nothing: no signal waiting in the queue, and no
\* signal a batch announces (signal-received) or hands to transition, was
\* dispatched by an entry that had already been removed.
C1_StaleDispatchSuppressed ==
  /\ \A i \in 1..Len(queue) : queue[i].fresh
  /\ \A i \in Lines(trace, {"signal-received", "call:transition"}) : trace[i].sig.fresh

\* A removed entry called its dispatch while the queue and the budget had
\* room: the call returned and no signal was queued.
C1_Witness ==
  /\ Len(trace) = 1
  /\ trace[1].type = "call:dispatch"
  /\ trace[1].ent \in dead
  /\ queue = <<>>
  /\ sent < MaxSignals

\* C2: when the promise of an entry that was canceled settles, the
\* continuation emits no event and leaves the running map (and the state and
\* the queue) as they were.
C2_StaleCompletionSuppressed ==
  [][\A e \in dead :
       (IsSettlement(trace') /\ trace'[1].ent = e)
         => /\ Len(trace') = 1
            /\ running' = running
            /\ state' = state
            /\ queue' = queue
            /\ dead' = dead]_vars

\* The continuation of a canceled entry ran (resolution) and did nothing,
\* while another entry was running.
C2_Witness ==
  /\ Len(trace) = 1
  /\ trace[1].type = "call:onFulfilled"
  /\ trace[1].ent \in dead
  /\ \E k \in Keys : running[k] # None

\* C3: when a batch's folded state no longer has key k among the keys of
\* effectsAt(state) and k has a running entry, the batch's reconciliation
\* calls that entry's cancel() exactly once, emits exactly one effect-canceled
\* for it when cancel returned, and no effect-completed is ever emitted for
\* an entry that was removed.
C3_CancellationOnDisappearance ==
  [][/\ IsBatch(trace') =>
          \A k \in Keys :
            (running[k] # None /\ k \notin DOMAIN effectsAt(state'))
              => /\ Cardinality(LinesOf(trace', {"call:cancel"}, running[k])) = 1
                 /\ (\A i \in LinesOf(trace', {"call:cancel"}, running[k]) :
                        trace'[i].err = NoError)
                      => Cardinality(LinesOf(trace', {"effect-canceled"}, running[k])) = 1
     /\ \A e \in dead : LinesOf(trace', {"effect-completed"}, e) = {}]_vars

\* C4: at most one RunningEffect per key: of the entries created and not yet
\* removed, no two have the same key and each is the running map's entry for
\* its key; and one synchronous section calls runEffect at most once per key.
C4_AtMostOneRunningEffectPerKey ==
  /\ \A k \in Keys :
       Cardinality({e \in 1..Len(entries) : entries[e].key = k /\ e \notin dead}) <= 1
  /\ \A e \in 1..Len(entries) : e \notin dead => running[entries[e].key] = e
  /\ \A k \in Keys : Cardinality(LinesAbout(trace, {"call:runEffect"}, k)) <= 1

\* A batch started one key while another key, still desired, kept running.
C4_Witness ==
  /\ IsBatch(trace)
  /\ \E k \in Keys :
       /\ running[k] # None
       /\ k \in state.active
       /\ LinesAbout(trace, EffectCalls, k) = {}
  /\ \E j \in Keys :
       /\ running[j] # None
       /\ LinesAbout(trace, {"call:start"}, j) # {}

\* C5: when no Definition callback throws, every key of the running map is a
\* key of effectsAt(getState()) whenever the engine is idle (checked under
\* SpecQuiet, whose callbacks neither throw nor reject).
C5_NoOrphanedEffects ==
  \A k \in Keys : running[k] # None => k \in DOMAIN effectsAt(state)

\* C6: in a batch's reconciliation a key that has a running entry and is still
\* a key of the new desired map is left untouched: same entry object, no
\* runEffect / start / cancel call and no effect event for it, whatever the
\* payload now stored under the key and whatever the signals were.
C6_IdempotentNoRestart ==
  [][IsBatch(trace') =>
       \A k \in Keys :
         (running[k] # None /\ k \in DOMAIN effectsAt(state'))
           => /\ running'[k] = running[k]
              /\ entries'[running[k]] = entries[running[k]]
              /\ LinesAbout(trace', EffectCalls \cup EffectEvents, k) = {}]_vars

\* After a batch, a key is still running under the entry it had before,
\* although the payload effectsAt now gives for it differs from the entry's.
C6_Witness ==
  /\ IsBatch(trace)
  /\ \E k \in Keys :
       /\ running[k] # None
       /\ k \in DOMAIN effectsAt(state)
       /\ entries[running[k]].effect # effectsAt(state)[k]
       /\ LinesAbout(trace, EffectCalls \cup EffectEvents, k) = {}

\* The signals a section announced, in order.
Received(t) == SelectSeq(t, LAMBDA x : x.type = "signal-received")

\* C7: the signals queued when the drain microtask runs are processed as one
\* batch in dispatch order, and the batch emits exactly one state-updated
\* event, carrying the fold of all of them.
C7_BatchCoalescing ==
  [][IsBatch(trace') =>
       /\ Len(Received(trace')) = Len(queue)
       /\ \A i \in 1..Len(queue) : Received(trace')[i].sig = queue[i]
       /\ Cardinality(Lines(trace', {"state-updated"})) = 1
       /\ \A i \in Lines(trace', {"state-updated"}) : trace'[i].gs = fold(queue, state)
       /\ state' = fold(queue, state)]_vars

\* C8: when runEffect throws for a desired key k, the pass emits exactly one
\* effect-failed carrying that error and that effect, no effect-started for
\* k, leaves k without a running entry, and still calls runEffect for every
\* other desired key that has no running entry.
C8_ConstructionFailureIsolated ==
  \A i \in Lines(trace, {"call:runEffect"}) :
    trace[i].err = ErrRunEffect =>
      /\ Cardinality(LinesAbout(trace, {"effect-failed"}, trace[i].key)) = 1
      /\ \A j \in LinesAbout(trace, {"effect-failed"}, trace[i].key) :
           trace[j].err = ErrRunEffect /\ trace[j].eff = trace[i].eff
      /\ LinesAbout(trace, {"effect-started"}, trace[i].key) = {}
      /\ running[trace[i].key] = None
      /\ \A k \in DOMAIN effectsAt(state) :
           running[k] = None => LinesAbout(trace, {"call:runEffect"}, k) # {}

\* C9: when cancel() throws for an obsolete entry, effect-failed is emitted
\* with the thrown error and the effect, effect-canceled is not emitted for
\* that entry, and the entry is out of the running map.
C9_CancelFailure ==
  \A i \in Lines(trace, {"call:cancel"}) :
    trace[i].err = ErrCancel =>
      /\ \E j \in LinesOf(trace, {"effect-failed"}, trace[i].ent) :
           trace[j].err = ErrCancel /\ trace[j].eff = trace[i].eff
      /\ LinesOf(trace, {"effect-canceled"}, trace[i].ent) = {}
      /\ ~trace[i].has

\* C10 as claimed: an entry that was the current entry for its key when its
\* promise settled has its continuation remove it and emit one event.
C10_SettledWhileCurrent ==
  (IsSettlement(trace) /\ trace[1].was) => Len(trace) = 2

\* C10 as amended: an entry that is the current entry for its key when the
\* continuation of its settled promise runs is removed from the running map,
\* and exactly one event is emitted for it: effect-completed on resolve,
\* effect-failed carrying the rejection reason on reject.
C10_SettlePath ==
  (IsSettlement(trace) /\ trace[1].cur) =>
    /\ Len(trace) = 2
    /\ trace[2].ent = trace[1].ent
    /\ trace[2].eff = entries[trace[1].ent].effect
    /\ trace[2].type =
         (IF trace[1].type = "call:onFulfilled" THEN "effect-completed" ELSE "effect-failed")
    /\ trace[2].err = (IF trace[1].type = "call:onFulfilled" THEN NoError ELSE ErrReject)
    /\ running[trace[1].key] = None
    /\ trace[1].ent \in dead

\* The continuation of a rejected promise found its entry current.
C10_Witness ==
  /\ IsSettlement(trace)
  /\ trace[1].cur
  /\ trace[1].type = "call:onRejected"

\* C11: whichever effect callback fails (runEffect throws, start throws
\* synchronously, the start promise rejects, cancel throws), no exception
\* leaves createMoorex or the batch, an effect-failed event carrying the error
\* is emitted for the effect, and afterwards the key has no running entry.
C11_EffectErrorsContained ==
  /\ ~escaped
  /\ \A i \in Lines(trace, EffectCalls \cup {"call:onRejected"}) :
       (trace[i].err # NoError /\ (trace[i].type = "call:onRejected" => trace[i].cur))
         => /\ \E j \in LinesAbout(trace, {"effect-failed"}, trace[i].key) :
                 j > i /\ trace[j].err = trace[i].err /\ trace[j].eff = trace[i].eff
            /\ running[trace[i].key] = None

\* C12: while a batch is folded, getState() returns the state the previous
\* batch left, never a partial fold: at every signal-received event and at
\* every transition call of the batch it is the state from before the batch.
C12_NoInteriorFoldValue ==
  [][IsBatch(trace') =>
       \A i \in Lines(trace', {"signal-received", "call:transition"}) :
         trace'[i].gs = state]_vars

\* A batch of several signals whose partial fold differed from what
\* getState() returned at that moment.
C12_Witness ==
  /\ IsBatch(trace)
  /\ Len(Received(trace)) >= 2
  /\ \E i \in Lines(trace, {"call:transition"}) : trace[i].arg # trace[i].gs

\* C13: within a batch the folded state becomes what getState() returns only
\* after reconciliation: at every cancel / runEffect / start call and every
\* effect-canceled / effect-started / effect-failed event of the batch,
\* getState() is still the state from before the batch; at state-updated it
\* is the folded state.
C13_CommitAfterReconciliation ==
  [][IsBatch(trace') =>
       /\ \A i \in Lines(trace', EffectCalls \cup {"effect-canceled", "effect-started",
                                                    "effect-failed"}) :
            trace'[i].gs = state
       /\ \A i \in Lines(trace', {"state-updated"}) : trace'[i].gs = fold(queue, state)]_vars

\* C14: a call of the public dispatch returns without throwing and without
\* calling transition, effectsAt, runEffect, cancel or an event handler; what
\* getState() returns and the running map are as before the call, and the
\* signal is at the end of the queue.
C14_DispatchDeferred ==
  [][\A signal \in Signals :
       Dispatch(signal) =>
         /\ trace' = <<>>
         /\ ~escaped'
         /\ state' = state
         /\ running' = running
         /\ entries' = entries
         /\ queue' = Append(queue, [sig |-> signal, src |-> None, fresh |-> TRUE,
                                     seq |-> sent + 1])]_vars

\* A public dispatch of a signal that will change the state has returned
\* while an effect is running: the signal waits for the drain microtask.
C14_Witness ==
  /\ trace = <<>>
  /\ queue # <<>>
  /\ queue[Len(queue)].src = None
  /\ fold(queue, state) # state
  /\ \E k \in Keys : running[k] # None
  /\ micro = <<[t |-> "drain", ent |-> None]>>

\* The section was createMoorex's own reconciliation pass.
IsConstruction(t) == t # <<>> /\ t[1].type = "call:effectsAt"

\* C15: when createMoorex returns, with no signal dispatched, runEffect has
\* been called exactly once for every key of effectsAt(initiate()) and for no
\* other key, every effect whose runEffect returned has been started, has
\* had effect-started emitted and is the running map's entry for its key, and
\* the pass emitted no signal-received and no state-updated.
C15_ConstructionReconciliation ==
  (IsConstruction(trace) /\ instance) =>
    /\ \A k \in Keys :
         Cardinality(LinesAbout(trace, {"call:runEffect"}, k))
           = (IF k \in DOMAIN effectsAt(state) THEN 1 ELSE 0)
    /\ \A i \in Lines(trace, {"call:runEffect"}) :
         trace[i].err = NoError =>
           /\ running[trace[i].key] # None
           /\ entries[running[trace[i].key]].key = trace[i].key
           /\ entries[running[trace[i].key]].effect = trace[i].eff
           /\ Cardinality(LinesOf(trace, {"call:start"}, running[trace[i].key])) = 1
           /\ Cardinality(LinesOf(trace, {"effect-started"}, running[trace[i].key])) = 1
    /\ Lines(trace, {"signal-received", "state-updated"}) = {}

\* createMoorex returned with two effects running.
C15_Witness ==
  /\ IsConstruction(trace)
  /\ instance
  /\ Cardinality({k \in Keys : running[k] # None}) >= 2

\* C16: a batch emits one signal-received per signal, in arrival order, all of
\* them before any effect-canceled / effect-started / effect-failed of its
\* reconciliation, and exactly one state-updated, which is the last thing the
\* batch does synchronously.
C16_EventTimeline ==
  [][IsBatch(trace') =>
       /\ Len(Received(trace')) = Len(queue)
       /\ \A i \in 1..Len(queue) : Received(trace')[i].sig = queue[i]
       /\ \A i \in Lines(trace', {"signal-received"}) :
            \A j \in Lines(trace', {"effect-canceled", "effect-started", "effect-failed"}) :
              i < j
       /\ Cardinality(Lines(trace', {"state-updated"})) = 1
       /\ trace'[Len(trace')].type = "state-updated"]_vars

\* C17: the signals handed to processBatch, batch after batch, are the
\* scheduled signals in schedule-call order, each once: the n-th signal
\* delivered is the n-th signal scheduled, and every signal still queued was
\* scheduled after every signal delivered, in queue order.
C17_ExactlyOnceFifo ==
  /\ Len(delivered) <= sent
  /\ \A n \in 1..Len(delivered) : delivered[n] = n
  /\ \A i \in 1..Len(queue) : queue[i].seq = Len(delivered) + i

\* Two signals were delivered in two batches, the second batch just now.
C17_Witness ==
  /\ IsBatch(trace)
  /\ Len(Received(trace)) = 1
  /\ Len(delivered) = 2

\* C18: when every processBatch call returns and the event loop runs its
\* microtasks, every signal handed to schedule is eventually handed to
\* processBatch: the n-th schedule call leads to an n-th delivery.
C18_QueueLiveness ==
  \A n \in 1..MaxSignals : (sent >= n) ~> (Len(delivered) >= n)

\* A batch has returned and a signal scheduled while it ran waits in the
\* queue, with a new drain microtask pending.
C18_Witness ==
  /\ IsBatch(trace)
  /\ queue # <<>>
  /\ draining
  /\ micro # <<>>
  /\ micro[Len(micro)].t = "drain"

\* C19: the batch a drain hands to processBatch is the whole queue as it was
\* when the drain ran; a signal scheduled while the batch is processed is not
\* part of it, stays queued, and a later drain microtask is pending to
\* deliver it.
C19_AtomicBatchExtraction ==
  [][IsBatch(trace') =>
       /\ Len(Received(trace')) = Len(queue)
       /\ \A i \in 1..Len(queue) : Received(trace')[i].sig = queue[i]
       /\ \A i \in 1..Len(queue') :
            /\ queue'[i].seq > sent
            /\ \A n \in 1..Len(delivered') : delivered'[n] # queue'[i].seq
       /\ queue' # <<>> => \E j \in 1..Len(micro') : micro'[j].t = "drain"]_vars

\* The drain microtasks waiting in the event loop's queue.
PendingDrains == {j \in 1..Len(micro) : micro[j].t = "drain"}

\* C20: at most one drain microtask of the queue is pending at any time, and
\* only while draining is set; one synchronous section enters processBatch at
\* most once (every signal-received of the section precedes its single
\* reconciliation), so the schedule calls made before the drain fires end in
\* one processBatch call.
C20_NoReentrantDrains ==
  /\ Cardinality(PendingDrains) <= 1
  /\ PendingDrains # {} => draining
  /\ Cardinality(Lines(trace, {"call:effectsAt"})) <= 1
  /\ Lines(trace, {"signal-received"}) # {} => IsBatch(trace)
  /\ \A i \in Lines(trace, {"signal-received"}) :
       \A j \in Lines(trace, {"call:effectsAt"}) : i < j
  /\ IsBatch(trace) =>
       \A i \in 1..Len(Received(trace)) :
         Received(trace)[i].sig.seq = Len(delivered) - Len(Received(trace)) + i

\* Two schedule calls were made before the drain fired: both signals wait
\* for the one pending drain microtask.
C20_Witness ==
  /\ Len(queue) = 2
  /\ draining
  /\ Cardinality(PendingDrains) = 1

\* C21: emit invokes exactly the handlers that were registered when it was
\* called: a handler unsubscribed during the emission still receives the
\* event, and a handler registered during the emission does not.
C21_EmitOnSnapshot ==
  Range(lastCalls) = Range(lastSnapshot)

\* C22: calling an unsubscribe function a second or later time leaves the
\* set of registered handlers unchanged.
C22_UnsubscribeIdempotent ==
  [][\A t \in 1..Len(subs) :
       (Unsubscribe(t) /\ subs[t].calls >= 1) => handlers' = handlers]_vars

\* C23: a handler receives an emitted event at most once, and the handlers
\* registered when the event was emitted receive it in registration order.
C23_SubscriptionDelivery ==
  /\ \A i, j \in 1..Len(lastCalls) : lastCalls[i] = lastCalls[j] => i = j
  /\ \A i, j \in 1..Len(lastCalls) :
       \A m, n \in 1..Len(lastSnapshot) :
         (i < j /\ lastCalls[i] = lastSnapshot[m] /\ lastCalls[j] = lastSnapshot[n]) => m < n

\* C24: a scoped dispatch called while its entry is current puts the signal
\* into the queue of the public dispatch, and a signal an effect has queued
\* has a drain microtask pending that will hand it to a later batch.
C24_EffectFeedback ==
  /\ \A i \in Lines(trace, {"call:dispatch"}) :
       trace[i].cur => \E j \in 1..Len(queue) : queue[j].src = trace[i].ent
  /\ (\E j \in 1..Len(queue) : queue[j].src # None) => PendingDrains # {}

\* C25: a batch s1..sn processed from committed state S leaves the state at
\* transition(sn)(...transition(s1)(S)...), calls transition once per signal
\* and effectsAt exactly once, with that final state, and calls effectsAt,
\* cancel, runEffect and start only after the last fold.
C25_OneReconciliationPerBatch ==
  [][IsBatch(trace') =>
       /\ state' = fold(queue, state)
       /\ Cardinality(Lines(trace', {"call:transition"})) = Len(queue)
       /\ Cardinality(Lines(trace', {"call:effectsAt"})) = 1
       /\ \A j \in Lines(trace', {"call:effectsAt"}) : trace'[j].arg = fold(queue, state)
       /\ \A i \in Lines(trace', {"call:transition"}) :
            \A j \in Lines(trace', EffectCalls \cup {"call:effectsAt"}) : i < j]_vars

\* A batch of two signals whose fold differs from the state it started from
\* was reconciled: an effect was cancelled or run.
C25_Witness ==
  /\ IsBatch(trace)
  /\ Len(Received(trace)) = 2
  /\ Lines(trace, EffectCalls) # {}
  /\ \E j \in Lines(trace, {"call:effectsAt"}) : trace[j].arg # trace[1].gs

\* C26: a batch in which transition or effectsAt threw does not wedge the
\* queue: a signal that waits in the queue, dispatched before or after such a
\* batch, has a drain microtask pending that will deliver it.
C26_BatchFailureNotWedging ==
  queue # <<>> => PendingDrains # {}

\* C27: once the entry of key k was removed and a new entry runs under k, a
\* late settlement or a late scoped dispatch of the old entry does not remove
\* the new entry, emits no event and enqueues no signal.
C27_ReplacedEntrySafety ==
  [][\A e \in dead :
       (/\ running[entries[e].key] # None
        /\ trace' # <<>>
        /\ trace'[1].type \in {"call:dispatch", "call:onFulfilled", "call:onRejected"}
        /\ trace'[1].ent = e)
         => /\ Len(trace') = 1
            /\ running' = running
            /\ queue' = queue
            /\ sent' = sent
            /\ dead' = dead]_vars

\* The promise of a removed entry settled while a newer entry with the same
\* effect payload runs under its key: the continuation ran and did nothing.
C27_Witness ==
  /\ Len(trace) = 1
  /\ trace[1].type \in {"call:onFulfilled", "call:onRejected"}
  /\ trace[1].ent \in dead
  /\ running[trace[1].key] # None
  /\ running[trace[1].key] # trace[1].ent
  /\ entries[running[trace[1].key]].effect = trace[1].eff

\* The lines of a section that end entry e: its cancel() call, its
\* effect-completed event, its effect-failed event for a rejection.
EndLines(t, e) ==
  LinesOf(t, {"call:cancel", "effect-completed"}, e)
    \cup {i \in LinesOf(t, {"effect-failed"}, e) : t[i].err # ErrCancel}

\* C28: an entry ends at most once and by one path: a section holds at most
\* one of cancel(), effect-completed and settlement effect-failed for an
\* entry, the entry was the running map's entry for its key before that
\* section and is not after it, and an entry that is no longer the running
\* map's entry for its key never becomes it again.
C28_EndsOnceByOnePath ==
  [][\A e \in 1..Len(entries') :
       /\ Cardinality(EndLines(trace', e)) <= 1
       /\ EndLines(trace', e) # {}
            => /\ e <= Len(entries)
               /\ running[entries[e].key] = e
               /\ running'[entries[e].key] # e
       /\ (e <= Len(entries) /\ running[entries[e].key] # e)
            => running'[entries[e].key] # e]_vars

\* A batch called cancel() for an entry after an earlier entry had ended.
C28_Witness ==
  /\ \E i \in Lines(trace, {"call:cancel"}) : trace[i].ent = 2
  /\ dead = {1, 2}

\* C29: when cancel() is called its entry is already deleted from the
\* running map: the key is observed as not running during cancel(), and a
\* scoped dispatch cancel() calls synchronously enqueues nothing.
C29_RemovedBeforeCancel ==
  \A i \in Lines(trace, {"call:cancel"}) :
    /\ ~trace[i].has
    /\ ~trace[i].cur
    /\ \A j \in 1..Len(queue) : queue[j].src # trace[i].ent
    /\ \A j \in LinesOf(trace, {"call:dispatch"}, trace[i].ent) : j > i => ~trace[j].cur

\* cancel() called its entry's dispatch synchronously while the queue and the
\* budget had room, and nothing was queued.
C29_Witness ==
  /\ \E i \in Lines(trace, {"call:cancel"}) :
       /\ i < Len(trace)
       /\ trace[i + 1].type = "call:dispatch"
       /\ trace[i + 1].ent = trace[i].ent
  /\ queue = <<>>
  /\ sent < MaxSignals

SettleLines(t, e) ==
  LinesOf(t, {"effect-completed"}, e)
    \cup {i \in LinesOf(t, {"effect-failed"}, e) : t[i].err # ErrCancel}

\* C31: for every effect started during a batch, its effect-started event is
\* followed by the batch's state-updated event, and the batch emits no
\* effect-completed or settlement effect-failed for it: those are emitted by
\* a later continuation, also when the promise was settled when start
\* returned.
C31_StateUpdatedBeforeCompletion ==
  /\ IsBatch(trace) =>
       \A i \in Lines(trace, {"effect-started"}) :
         /\ \E j \in Lines(trace, {"state-updated"}) : i < j
         /\ SettleLines(trace, trace[i].ent) = {}
  /\ \A i \in Lines(trace, {"effect-completed"}) : IsSettlement(trace)

\* C32: a key whose runEffect threw has no running entry and is not retried
\* outside a batch; every batch in which a key is desired and has no running
\* entry calls runEffect for it once: a call that throws emits one
\* effect-failed and leaves the key without entry, a call that returns starts
\* the effect (effect-started, entry in the running map).
C32_RetryOnlyByReconciliation ==
  [][/\ ~IsBatch(trace') => Lines(trace', {"call:runEffect"}) = {}
     /\ IsBatch(trace') =>
          \A k \in DOMAIN effectsAt(state') :
            running[k] = None =>
              /\ Cardinality(LinesAbout(trace', {"call:runEffect"}, k)) = 1
              /\ \A i \in LinesAbout(trace', {"call:runEffect"}, k) :
                   IF trace'[i].err = ErrRunEffect
                   THEN /\ running'[k] = None
                        /\ Cardinality(LinesAbout(trace', {"effect-failed"}, k)) = 1
                        /\ LinesAbout(trace', {"effect-started"}, k) = {}
                   ELSE /\ running'[k] # None
                        /\ Cardinality(LinesAbout(trace', {"effect-started"}, k)) = 1]_vars

\* C33: every runEffect call of a reconciliation pass receives the key, the
\* effect stored under that key in the desired map of the pass, and the state
\* that was passed to effectsAt in the pass, which is the state the pass
\* leaves as getState().
C33_RunEffectArguments ==
  \A j \in Lines(trace, {"call:runEffect"}) :
    /\ trace[j].arg = state
    /\ \E i \in Lines(trace, {"call:effectsAt"}) :
         /\ i < j
         /\ trace[j].arg = trace[i].arg
         /\ trace[j].key \in DOMAIN effectsAt(trace[i].arg)
         /\ trace[j].eff = effectsAt(trace[i].arg)[trace[j].key]

\* A batch whose fold changed the state called runEffect, which returned.
C33_Witness ==
  /\ IsBatch(trace)
  /\ \E j \in Lines(trace, {"call:runEffect"}) :
       /\ trace[j].arg # trace[1].gs
       /\ trace[j].err = NoError

\* C34: a key that is desired in the current state and whose entry was
\* removed stays without entry, and without a runEffect call, in every
\* section that is not a batch, and the next batch that leaves it desired,
\* also one that leaves the state unchanged, calls runEffect for it once.
C34_SettledKeyRestarted ==
  [][\A k \in Keys :
       (/\ k \in DOMAIN effectsAt(state)
        /\ running[k] = None
        /\ \E e \in dead : entries[e].key = k)
         => /\ ~IsBatch(trace') =>
                 /\ running'[k] = None
                 /\ LinesAbout(trace', {"call:runEffect"}, k) = {}
            /\ (IsBatch(trace') /\ k \in DOMAIN effectsAt(state')) =>
                 Cardinality(LinesAbout(trace', {"call:runEffect"}, k)) = 1]_vars

\* C35: a signal an effect enqueued while its entry was current is folded by
\* a later batch also when the entry has been removed in between: a batch
\* hands every queued signal of an effect to transition whatever became of
\* the entry, and a queued signal of a removed entry has a drain microtask
\* pending that will run that batch.
C35_GuardAtCallTime ==
  [][/\ IsBatch(trace') =>
          \A i \in 1..Len(queue) :
            queue[i].src # None =>
              \E j \in Lines(trace', {"call:transition"}) : trace'[j].sig = queue[i]
     /\ \A j \in 1..Len(queue') :
          queue'[j].src \in dead' => PendingDrains' # {}]_vars

\* C36: the events of createMoorex's own reconciliation pass are emitted
\* while no handler is subscribed, so they are delivered to zero handlers;
\* on() can be called only on the instance createMoorex returned.
C36_ConstructionEventsUnobserved ==
  /\ IsConstruction(trace) => handlers = <<>>
  /\ handlers # <<>> => instance

\* A handler subscribed after construction, with no signal ever dispatched,
\* and the completion of an initial effect was then emitted.
C36_Witness ==
  /\ handlers # <<>>
  /\ sent = 0
  /\ IsSettlement(trace)
  /\ Lines(trace, {"effect-completed", "effect-failed"}) # {}

\* C37: when processBatch never throws, between two synchronous sections a
\* non-empty queue implies that draining is set and exactly one drain
\* microtask is scheduled, and a cleared draining flag implies that the
\* queue is empty.
C37_PendingSignalsHaveDrain ==
  /\ queue # <<>> => (draining /\ Cardinality(PendingDrains) = 1)
  /\ ~draining => queue = <<>>

\* A batch has returned and left a signal, scheduled while it ran, in the
\* queue: the drain callback queued the next drain.
C37_Witness ==
  /\ IsBatch(trace)
  /\ queue # <<>>
  /\ draining
  /\ Cardinality(PendingDrains) = 1

\* C38: in a batch's reconciliation the test that keeps a running key alive
\* (key in currentEffects) agrees with the keys startNewEffects iterates (the
\* own keys of the record effectsAt returned): a running key that is not an
\* own key of the desired record fails the test and is canceled.
C38_DesiredKeysAgree ==
  [][IsBatch(trace') =>
       \A k \in Keys :
         (running[k] # None /\ k \notin Range(ObjectEntries(effectsAt(state'))))
           => /\ ~HasProperty(k, effectsAt(state'))
              /\ LinesAbout(trace', {"call:cancel"}, k) # {}
              /\ running'[k] = None]_vars

\* C39: processBatch is never called with an empty batch and the drain
\* callback never finds the queue empty: while a drain microtask is pending
\* the queue holds at least one signal, and every reconciliation that is not
\* createMoorex's own is that of a batch that received a signal.
C39_NoEmptyBatch ==
  /\ PendingDrains # {} => queue # <<>>
  /\ Lines(trace, {"call:effectsAt", "state-updated"}) # {} =>
       (IsConstruction(trace) \/ (IsBatch(trace) /\ Len(Received(trace)) >= 1))

\* A batch has run and the queue it left is empty: no drain microtask is
\* pending although signals were processed.
C39_Witness ==
  /\ IsBatch(trace)
  /\ queue = <<>>
  /\ PendingDrains = {}
  /\ ~draining
  /\ Len(delivered) = 2

\* C40: the function guardCurrentEffect(running, entry)(callback) returns,
\* here wrapping schedule as an effect's dispatch, calls the callback exactly
\* once with the argument it was given when the running map's entry for
\* entry.key is that entry at the time of the call, and otherwise returns
\* without calling it, without throwing and without changing anything.
C40_GuardWrapper ==
  [][\A e \in 1..Len(entries) :
       (/\ trace' # <<>>
        /\ trace'[1].type = "call:dispatch"
        /\ trace'[1].ent = e)
         => /\ ~escaped'
            /\ Len(trace') = 1
            /\ running' = running
            /\ state' = state
            /\ IF running[entries[e].key] = e
               THEN /\ sent' = sent + 1
                    /\ queue' = Append(queue, [sig |-> Done(entries[e].key), src |-> e,
                                               fresh |-> TRUE, seq |-> sent + 1])
               ELSE /\ sent' = sent
                    /\ queue' = queue
                    /\ micro' = micro
                    /\ draining' = draining]_vars

\* One wrapper was called twice: the first call, made while the entry was
\* current, queued its signal, which still waits; the second call, made
\* after the entry was removed, did nothing.
C40_Witness ==
  /\ Len(trace) = 1
  /\ trace[1].type = "call:dispatch"
  /\ ~trace[1].cur
  /\ \E j \in 1..Len(queue) : queue[j].src = trace[1].ent
  /\ sent < MaxSignals

====
